---- MODULE Spec2Model ----
(***************************************************************************)
(* pr: switching between tmux sessions bound to project directories.      *)
(* One run of the program: main lists the live sessions, ChangeSession    *)
(* resolves the token, touches the favourites, creates the session if it  *)
(* has to and switches; main then saves the favourites.                   *)
(* Strings are TLA+ strings; a Go map[string]string is a set of <<k, v>>. *)
(***************************************************************************)
EXTENDS Integers, Sequences, FiniteSets, TLC

VARIABLES
    pc,             \* position of the process: "main", "returned", "exit", "fatal", "panic", "exec"; "touch" in TouchSpec
    sessions,       \* ss: what listSessions returned, in listing order
    sessionId,      \* the token given to ChangeSession
    allowCreateDir, \* flag -c
    TMUX,           \* os.Getenv("TMUX") != ""
    Config,         \* the FavouritesConfig: [Sessions, changed]
    document,       \* the favourites document on disk, as Load read it / Save wrote it
    writes,         \* number of os.WriteFile calls on the document
    dirs,           \* the directories that exist
    tmux,           \* the live sessions of the tmux server: set of [Name, Path]
    created,        \* the arguments of the successful "tmux new" calls, in order
    client,         \* the session the client was switched or attached to ("" none)
    resolved,       \* ChangeSession's locals at line 501: sessionName, sessionDirPath, sessionStartCmd, sessionEnv
    touched,        \* the <<name, path>> of every Touch call so far
    before          \* the Config as it was before the latest Touch call

vars == <<pc, sessions, sessionId, allowCreateDir, TMUX, Config, document, writes,
          dirs, tmux, created, client, resolved, touched, before>>

-----------------------------------------------------------------------------
(* Bounds of the model *)

MaxSessions == 3
MaxFavs == 2
MaxTouches == 3

-----------------------------------------------------------------------------
(* Strings and paths *)

\* strings.HasPrefix(s, prefix)
HasPrefix(s, prefix) ==
    Len(prefix) <= Len(s) /\ SubSeq(s, 1, Len(prefix)) = prefix

\* countRepeatedChars: len(s) when s is made of char only, else 0
countRepeatedChars(s, char) ==
    IF \A i \in 1..Len(s) : SubSeq(s, i, i) = char THEN Len(s) ELSE 0

\* the string without its trailing slashes
RECURSIVE StripSlashes(_)
StripSlashes(p) ==
    IF p # "" /\ SubSeq(p, Len(p), Len(p)) = "/"
    THEN StripSlashes(SubSeq(p, 1, Len(p) - 1))
    ELSE p

\* index of the last "/" of p, 0 when there is none
LastSlash(p) ==
    LET I == {i \in 1..Len(p) : SubSeq(p, i, i) = "/"}
    IN IF I = {} THEN 0 ELSE CHOOSE i \in I : \A j \in I : j <= i

\* filepath.Base: the last element of the path
Base(p) ==
    IF p = "" THEN "."
    ELSE LET q == StripSlashes(p)
         IN IF q = "" THEN "/" ELSE SubSeq(q, LastSlash(q) + 1, Len(q))

\* filepath.Dir: all but the last element (paths without "." and ".." elements)
Dir(p) ==
    LET d == SubSeq(p, 1, LastSlash(p))
        q == StripSlashes(d)
    IN IF d = "" THEN "." ELSE IF q = "" THEN "/" ELSE q

\* Home, the user's home directory
Home == "/h"

\* filepath.Join(Home, name), name a single path element
JoinHome(name) == Home \o "/" \o name

\* os.ReadDir(Home): the entries of Home, sorted by name
HomeEntries == <<"a", "notes", "pa", "proj">>

\* os.Getwd()
Getwd == "/h/proj"

\* isDir(path), against the directories ds
isDir(ds, path) == path \in ds

-----------------------------------------------------------------------------
(* Favourites store *)

\* index (from 0, as in the code) of the first record called name, -1 if none
FoundIndex(list, name) ==
    LET I == {i \in 1..Len(list) : list[i].Name = name}
    IN IF I = {} THEN -1 ELSE (CHOOSE i \in I : \A j \in I : i <= j) - 1

\* faulty variant of Touch: no lookup, a fresh record is always prepended
Touch_alwaysInsert(fc, name, path) ==
    IF HasPrefix(path, "/tmp/") THEN fc
    ELSE [Sessions |-> <<[Name |-> name, Path |-> path, Cmd |-> "",
                          Aliases |-> <<>>, Env |-> {}]>> \o fc.Sessions,
          changed |-> TRUE]

\* faulty variant of Touch: the found record is copied to the front but not cut out
Touch_keepsOld(fc, name, path) ==
    IF HasPrefix(path, "/tmp/") THEN fc
    ELSE LET found_i == FoundIndex(fc.Sessions, name)
             fs == IF found_i > 0 THEN fc.Sessions[found_i + 1]
                   ELSE [Name |-> name, Path |-> path, Cmd |-> "",
                         Aliases |-> <<>>, Env |-> {}]
         IN IF found_i = 0 THEN fc
            ELSE [Sessions |-> <<fs>> \o fc.Sessions, changed |-> TRUE]

\* faulty variant of Touch: a moved record is rebuilt from the arguments
Touch_freshOnMove(fc, name, path) ==
    IF HasPrefix(path, "/tmp/") THEN fc
    ELSE LET found_i == FoundIndex(fc.Sessions, name)
             fs == [Name |-> name, Path |-> path, Cmd |-> "",
                    Aliases |-> <<>>, Env |-> {}]
             n == Len(fc.Sessions)
         IN IF found_i = 0 THEN fc
            ELSE [Sessions |->
                     IF found_i >= 0
                     THEN <<fs>> \o SubSeq(fc.Sessions, 1, found_i)
                               \o SubSeq(fc.Sessions, found_i + 2, n)
                     ELSE <<fs>> \o fc.Sessions,
                  changed |-> TRUE]

\* FavouritesConfig.Touch: the store after Touch(name, path)
Touch(fc, name, path) ==
    IF HasPrefix(path, "/tmp/") THEN fc
    ELSE LET found_i == FoundIndex(fc.Sessions, name)
             fs == IF found_i > 0 THEN fc.Sessions[found_i + 1]
                   ELSE [Name |-> name, Path |-> path, Cmd |-> "",
                         Aliases |-> <<>>, Env |-> {}]
             n == Len(fc.Sessions)
         IN IF found_i = 0 THEN fc
            ELSE [Sessions |->
                     IF found_i >= 0
                     THEN <<fs>> \o SubSeq(fc.Sessions, 1, found_i)
                               \o SubSeq(fc.Sessions, found_i + 2, n)
                     ELSE <<fs>> \o fc.Sessions,
                  changed |-> TRUE]

-----------------------------------------------------------------------------
(* Session backend *)

\* sessionsByName[name] of ChangeSession: the map built from the listing
\* (a later entry of the same name overwrites an earlier one) and its lookup
sessionsByName(ss, name) ==
    LET I == {i \in 1..Len(ss) : ss[i].Name = name}
    IN IF I = {} THEN [ok |-> FALSE, s |-> [Name |-> "", Path |-> "", LastActivity |-> 0]]
       ELSE [ok |-> TRUE, s |-> ss[CHOOSE i \in I : \A j \in I : j <= i]]

\* the less function given to sort.Slice: i is more recently active than j
After(s, t) == s.LastActivity > t.LastActivity

\* the orders of the set S in which no session comes after a less recent one
RECURSIVE SortedOrders(_)
SortedOrders(S) ==
    IF S = {} THEN {<<>>}
    ELSE UNION {{<<m>> \o rest : rest \in SortedOrders(S \ {m})} :
                m \in {x \in S : \A y \in S : ~After(y, x)}}

\* faulty variant of SortSlice: oldest first
SortSlice_ascending(ss) ==
    LET Rev(q) == [i \in 1..Len(q) |-> q[Len(q) + 1 - i]]
    IN {Rev(q) : q \in SortedOrders({ss[i] : i \in 1..Len(ss)})}

\* sort.Slice(sortedSessions, After): the results it may leave. sort.Slice is
\* not a stable sort, so sessions of equal LastActivity come in any order.
SortSlice(ss) == SortedOrders({ss[i] : i \in 1..Len(ss)})

\* faulty variant of createSession: an existing session of that name is replaced
createSession_replaces(tm, name, path) ==
    [err |-> FALSE,
     tmux |-> {s \in tm : s.Name # name} \cup {[Name |-> name, Path |-> path]}]

\* createSession: "tmux new -c path -s name -d"; tmux refuses a name that is
\* already a session's ("duplicate session"), and dieIfError then panics.
\* The names of the model have no "." and no ":", which tmux would rewrite.
createSession(tm, name, path) ==
    IF \E s \in tm : s.Name = name
    THEN [err |-> TRUE, tmux |-> tm]
    ELSE [err |-> FALSE, tmux |-> tm \cup {[Name |-> name, Path |-> path]}]

\* switchToSession: where the process is afterwards. Inside tmux switch-client
\* returns; outside, syscall.Exec replaces the process image by "tmux attach".
switchToSession(inTmux, tm, name) ==
    IF ~\E s \in tm : s.Name = name THEN "panic"
    ELSE IF inTmux THEN "returned" ELSE "exec"

-----------------------------------------------------------------------------
(* ChangeSession: resolution of the token, lines 371-500 *)

\* the locals sessionName, sessionDirPath, sessionStartCmd, sessionEnv
Target(name, dir, cmd, env) ==
    [sessionName |-> name, sessionDirPath |-> dir,
     sessionStartCmd |-> cmd, sessionEnv |-> env]

\* their values at the declarations, lines 376-379
NoTarget == Target("", "", "", {})

\* a resolution: the locals, whether log.Fatalf ended the process, and
\* whether os.Mkdir(sessionId) was called
Resolution(t, fatal, mkdir) == [target |-> t, fatal |-> fatal, mkdir |-> mkdir]

\* lines 386-402: a token that starts with "/"
ByPath(ds, id, allow) ==
    IF ~isDir(ds, id)
    THEN IF isDir(ds, Dir(id))
         THEN IF allow \/ HasPrefix(id, "/tmp/")
              THEN Resolution(Target(Base(id), id, "", {}), FALSE, TRUE)
              ELSE Resolution(NoTarget, TRUE, FALSE)
         ELSE Resolution(NoTarget, TRUE, FALSE)
    ELSE Resolution(Target(Base(id), id, "", {}), FALSE, FALSE)

\* lines 403-418: a token of n dashes; sortedSessions is what sort.Slice left
ByDashes(ss, sortedSessions, n) ==
    IF Len(ss) < 2 THEN Resolution(NoTarget, TRUE, FALSE)
    ELSE LET m == IF n >= Len(ss) THEN Len(ss) - 1 ELSE n
             s == sortedSessions[m + 1]
         IN Resolution(Target(s.Name, s.Path, "", {}), FALSE, FALSE)

\* lines 420-424: a live session called id
ByLiveName(ss, id, t) ==
    LET r == sessionsByName(ss, id)
    IN IF r.ok THEN [t EXCEPT !.sessionName = r.s.Name, !.sessionDirPath = r.s.Path]
       ELSE t

\* faulty variant of ByLivePrefix: the scan stops at the first match
RECURSIVE ByLivePrefix_first(_, _, _, _)
ByLivePrefix_first(ss, id, i, t) ==
    IF i > Len(ss) THEN t
    ELSE IF HasPrefix(ss[i].Name, id)
         THEN [t EXCEPT !.sessionName = ss[i].Name, !.sessionDirPath = ss[i].Path]
         ELSE ByLivePrefix_first(ss, id, i + 1, t)

\* lines 427-432: the loop over the live sessions from the i-th on, no break
RECURSIVE ByLivePrefix(_, _, _, _)
ByLivePrefix(ss, id, i, t) ==
    IF i > Len(ss) THEN t
    ELSE ByLivePrefix(ss, id, i + 1,
            IF HasPrefix(ss[i].Name, id)
            THEN [t EXCEPT !.sessionName = ss[i].Name, !.sessionDirPath = ss[i].Path]
            ELSE t)

\* faulty variant of ByFavourite: the scan goes on after a match, the last one wins
RECURSIVE ByFavourite_last(_, _, _, _)
ByFavourite_last(favs, id, i, t) ==
    IF i > Len(favs) THEN t
    ELSE LET fs == favs[i]
             hit == Target(fs.Name, fs.Path, fs.Cmd, fs.Env)
         IN ByFavourite_last(favs, id, i + 1,
                IF fs.Name = id \/ \E k \in 1..Len(fs.Aliases) : fs.Aliases[k] = id
                THEN hit ELSE t)

\* lines 437-457: the loop over the favourites from the i-th on, by name or alias
RECURSIVE ByFavourite(_, _, _, _)
ByFavourite(favs, id, i, t) ==
    IF i > Len(favs) THEN t
    ELSE LET fs == favs[i]
             hit == Target(fs.Name, fs.Path, fs.Cmd, fs.Env)
         IN IF fs.Name = id THEN hit
            ELSE LET t1 == IF \E k \in 1..Len(fs.Aliases) : fs.Aliases[k] = id
                           THEN hit ELSE t
                 IN IF t1.sessionName # "" THEN t1
                    ELSE ByFavourite(favs, id, i + 1, t1)

\* lines 462-470: the loop over the favourites from the i-th on, by name prefix
RECURSIVE ByFavouritePrefix(_, _, _, _)
ByFavouritePrefix(favs, id, i, t) ==
    IF i > Len(favs) THEN t
    ELSE IF HasPrefix(favs[i].Name, id)
         THEN Target(favs[i].Name, favs[i].Path, favs[i].Cmd, favs[i].Env)
         ELSE ByFavouritePrefix(favs, id, i + 1, t)

\* lines 477-481: the directory Home/id
ByHomeDir(ds, id, t) ==
    LET p == JoinHome(id)
    IN IF isDir(ds, p)
       THEN [t EXCEPT !.sessionDirPath = p, !.sessionName = Base(p)]
       ELSE t

\* lines 487-496: the loop over the entries of Home from the i-th on
RECURSIVE ByHomePrefix(_, _, _, _)
ByHomePrefix(ds, id, i, t) ==
    IF i > Len(HomeEntries) THEN t
    ELSE LET p == JoinHome(HomeEntries[i])
         IN IF HasPrefix(HomeEntries[i], id) /\ isDir(ds, p)
            THEN [t EXCEPT !.sessionDirPath = p, !.sessionName = Base(p)]
            ELSE ByHomePrefix(ds, id, i + 1, t)

\* "if sessionName == "" {" before the prefix scan of the live sessions, line 425
OrLivePrefix(ss, id, t) ==
    IF t.sessionName = "" THEN ByLivePrefix(ss, id, 1, t) ELSE t

\* "if sessionName == "" {" before the favourites by name or alias, line 434
OrFavourite(favs, id, t) ==
    IF t.sessionName = "" THEN ByFavourite(favs, id, 1, t) ELSE t

\* "if sessionName == "" {" before the favourites by prefix, line 459
OrFavouritePrefix(favs, id, t) ==
    IF t.sessionName = "" THEN ByFavouritePrefix(favs, id, 1, t) ELSE t

\* "if sessionName == "" {" before Home/id, line 475
OrHomeDir(ds, id, t) ==
    IF t.sessionName = "" THEN ByHomeDir(ds, id, t) ELSE t

\* "if sessionName == "" {" before the entries of Home, line 483
OrHomePrefix(ds, id, t) ==
    IF t.sessionName = "" THEN ByHomePrefix(ds, id, 1, t) ELSE t

\* faulty variant of ByName: the favourites are asked before the live sessions
ByName_favouritesFirst(ss, favs, id) ==
    IF ByFavourite(favs, id, 1, NoTarget).sessionName # ""
    THEN ByFavourite(favs, id, 1, NoTarget)
    ELSE OrFavouritePrefix(favs, id,
            OrLivePrefix(ss, id, ByLiveName(ss, id, NoTarget)))

\* lines 419-474: the else branch, live sessions first, then the favourites
ByName(ss, favs, id) ==
    OrFavouritePrefix(favs, id,
        OrFavourite(favs, id,
            OrLivePrefix(ss, id, ByLiveName(ss, id, NoTarget))))

\* lines 381-385: "." is the current directory
Here(token) == IF token = "." THEN Getwd ELSE token

\* lines 386-474: the three branches on the form of the token
ByForm(ss, sortedSessions, favs, ds, id, allow) ==
    IF HasPrefix(id, "/") THEN ByPath(ds, id, allow)
    ELSE IF countRepeatedChars(id, "-") > 0
         THEN ByDashes(ss, sortedSessions, countRepeatedChars(id, "-"))
         ELSE Resolution(ByName(ss, favs, id), FALSE, FALSE)

\* lines 498-500: no name found is fatal
OrFatal(t, mkdir) == Resolution(t, t.sessionName = "", mkdir)

\* lines 475-500: the home directory, for a token that gave no name so far
WithHome(ds, id, r) ==
    IF r.fatal THEN r
    ELSE OrFatal(OrHomePrefix(ds, id, OrHomeDir(ds, id, r.target)), r.mkdir)

\* lines 381-500: the resolution of the token sessionId
Resolve(ss, sortedSessions, favs, ds, token, allow) ==
    WithHome(ds, Here(token),
             ByForm(ss, sortedSessions, favs, ds, Here(token), allow))

-----------------------------------------------------------------------------
(* ChangeSession: the session to switch to, lines 502-524 *)

\* SUFFIXES, line 367
SUFFIXES == <<"", "1", "2", "3", "4", "5", "6", "7", "8", "9">>

\* lines 503-517: the loop from the i-th suffix on. "existing": a live session
\* of that name and directory is switched to; "create": the candidate name is
\* free, and Touch, createSession and switchToSession are called with the
\* bare sessionName; "occupied": the loop ran out (line 518)
RECURSIVE PickSession(_, _, _)
PickSession(ss, t, i) ==
    IF i > Len(SUFFIXES) THEN [kind |-> "occupied", name |-> "", path |-> ""]
    ELSE LET r == sessionsByName(ss, t.sessionName \o SUFFIXES[i])
         IN IF r.ok /\ r.s.Path = t.sessionDirPath
            THEN [kind |-> "existing", name |-> r.s.Name, path |-> r.s.Path]
            ELSE IF ~r.ok
                 THEN [kind |-> "create", name |-> t.sessionName,
                       path |-> t.sessionDirPath]
                 ELSE PickSession(ss, t, i + 1)

-----------------------------------------------------------------------------
(* The inputs of a run *)

\* live sessions a listing is made of
SessionCatalog ==
    { [Name |-> "a",  Path |-> "/h/a",  LastActivity |-> 3],
      [Name |-> "a",  Path |-> "/w/a",  LastActivity |-> 1],
      [Name |-> "a1", Path |-> "/w/a",  LastActivity |-> 2],
      [Name |-> "ab", Path |-> "/h/ab", LastActivity |-> 2],
      [Name |-> "-",  Path |-> "/w/-",  LastActivity |-> 1] }

\* sequences of at most n elements of S with pairwise different names
RECURSIVE DistinctSeqs(_, _)
DistinctSeqs(S, n) ==
    IF n = 0 THEN {<<>>}
    ELSE LET shorter == DistinctSeqs(S, n - 1)
         IN shorter \cup
            {Append(q, x) : <<q, x>> \in
                {y \in shorter \X S :
                    \A i \in 1..Len(y[1]) : y[1][i].Name # y[2].Name}}

\* the name "a" and its nine numbered variants, all live in another directory
OccupiedListing ==
    [i \in 1..Len(SUFFIXES) |->
        [Name |-> "a" \o SUFFIXES[i], Path |-> "/h/a", LastActivity |-> i]]

\* what listSessions may return: tmux's session names are unique
Listings == DistinctSeqs(SessionCatalog, MaxSessions) \cup {OccupiedListing}

\* favourites a document is made of
FavouriteCatalog ==
    { [Name |-> "proj", Path |-> "/h/proj", Cmd |-> "vim",
       Aliases |-> <<"p", "work">>, Env |-> {<<"GOFLAGS", "-mod=mod">>}],
      [Name |-> "pa", Path |-> "/h/pa", Cmd |-> "make",
       Aliases |-> <<"p">>, Env |-> {}],
      [Name |-> "a", Path |-> "/w/a", Cmd |-> "",
       Aliases |-> <<>>, Env |-> {}],
      [Name |-> "-", Path |-> "/w/-", Cmd |-> "",
       Aliases |-> <<>>, Env |-> {}] }

\* the favourites documents: no two records share a name
Documents == DistinctSeqs(FavouriteCatalog, MaxFavs)

\* the tokens
Tokens == {".", "/w/a", "/w/new", "/tmp/t1", "/no/x", "-", "--", "---",
           "a", "p", "proj", "pr", "wo", "n", "zz"}

\* the directories that exist when the process starts
Directories == {"/", "/h", "/w", "/tmp", "/h/a", "/h/ab", "/h/pa", "/h/proj",
                "/w/a", "/w/-"}

-----------------------------------------------------------------------------
(* The run *)

\* init() has loaded the document (Config.Load), main has listed the sessions
Init ==
    /\ pc = "main"
    /\ sessions \in Listings
    /\ sessionId \in Tokens
    /\ allowCreateDir \in BOOLEAN
    /\ TMUX \in BOOLEAN
    /\ document \in Documents
    /\ Config = [Sessions |-> document, changed |-> FALSE]
    /\ writes = 0
    /\ dirs = Directories
    /\ tmux = {[Name |-> sessions[i].Name, Path |-> sessions[i].Path] :
                 i \in 1..Len(sessions)}
    /\ created = <<>>
    /\ client = ""
    /\ resolved = NoTarget
    /\ touched = <<>>
    /\ before = Config

\* lines 507-508 and 512-514: Touch, createSession (for a new session) and
\* switchToSession; made is what createSession returned
Switch(t, c, made) ==
    /\ Config' = Touch(Config, c.name, c.path)
    /\ touched' = Append(touched, <<c.name, c.path>>)
    /\ before' = Config
    /\ tmux' = made.tmux
    /\ IF made.err
       THEN /\ pc' = "panic"
            /\ UNCHANGED <<created, client>>
       ELSE /\ created' = IF c.kind = "create"
                          THEN Append(created,
                                  [name |-> c.name, path |-> c.path,
                                   cmd |-> t.sessionStartCmd, env |-> t.sessionEnv])
                          ELSE created
            /\ pc' = switchToSession(TMUX, made.tmux, c.name)
            /\ client' = IF switchToSession(TMUX, made.tmux, c.name) = "panic"
                         THEN client ELSE c.name

\* lines 502-524: the suffix loop picked c
Materialize(t, c) ==
    IF c.kind = "occupied"
    THEN /\ pc' = "fatal"
         /\ UNCHANGED <<Config, tmux, created, client, touched, before>>
    ELSE Switch(t, c, IF c.kind = "create" THEN createSession(tmux, c.name, c.path)
                      ELSE [err |-> FALSE, tmux |-> tmux])

\* lines 381-524 once the token is resolved to r
Proceed(r) ==
    IF r.fatal
    THEN /\ pc' = "fatal"
         /\ UNCHANGED <<Config, dirs, tmux, created, client, resolved, touched, before>>
    ELSE /\ resolved' = r.target
         /\ dirs' = IF r.mkdir THEN dirs \cup {r.target.sessionDirPath} ELSE dirs
         /\ Materialize(r.target, PickSession(sessions, r.target, 1))

\* ChangeSession(ss, sessionId, *fAllowCreateDir), lines 370-524
ChangeSession ==
    /\ pc = "main"
    /\ \E sortedSessions \in SortSlice(sessions) :
          Proceed(Resolve(sessions, sortedSessions, Config.Sessions, dirs,
                          sessionId, allowCreateDir))
    /\ UNCHANGED <<sessions, sessionId, allowCreateDir, TMUX, document, writes>>

\* main after ChangeSession returned: Config.Save(), lines 165-173 and 630
Save ==
    /\ pc = "returned"
    /\ pc' = "exit"
    /\ IF Config.changed
       THEN document' = Config.Sessions /\ writes' = writes + 1
       ELSE UNCHANGED <<document, writes>>
    /\ UNCHANGED <<sessions, sessionId, allowCreateDir, TMUX, Config, dirs, tmux,
                   created, client, resolved, touched, before>>

Next == ChangeSession \/ Save

Spec == Init /\ [][Next]_vars

-----------------------------------------------------------------------------
(* Touch on its own: any calls on any store *)

\* the arguments of the calls: names in and out of the store, among them a
\* suffixed session name; a path under /tmp/ and one outside
TouchNames == {"a", "a1", "proj"}
TouchPaths == {"/w/a", "/tmp/t1"}

TouchInit ==
    /\ pc = "touch"
    /\ document \in Documents
    /\ Config = [Sessions |-> document, changed |-> FALSE]
    /\ touched = <<>>
    /\ before = Config
    /\ sessions = <<>>
    /\ sessionId = ""
    /\ allowCreateDir = FALSE
    /\ TMUX = FALSE
    /\ writes = 0
    /\ dirs = Directories
    /\ tmux = {}
    /\ created = <<>>
    /\ client = ""
    /\ resolved = NoTarget

\* Config.Touch(name, path)
TouchCall ==
    /\ pc = "touch"
    /\ Len(touched) < MaxTouches
    /\ \E name \in TouchNames, path \in TouchPaths :
        /\ Config' = Touch(Config, name, path)
        /\ touched' = Append(touched, <<name, path>>)
        /\ before' = Config
    /\ UNCHANGED <<pc, sessions, sessionId, allowCreateDir, TMUX, document, writes,
                   dirs, tmux, created, client, resolved>>

TouchNext == TouchCall

TouchSpec == TouchInit /\ [][TouchNext]_vars

\* both: a run of the program, or calls of Touch on their own
AllInit == Init \/ TouchInit

AllNext == ChangeSession \/ Save \/ TouchCall

AllSpec == AllInit /\ [][AllNext]_vars

-----------------------------------------------------------------------------
(* Vocabulary of the properties *)

\* ChangeSession has ended one way or another and Save has not run: document
\* is still the store as loaded, sessions the listing the call was given
Ended == pc \in {"returned", "exec", "panic", "fatal"}

\* ChangeSession reached a switch and the switch was made
Switched == pc \in {"returned", "exec"}

\* the listing has a session called name
Live(name) == \E i \in 1..Len(sessions) : sessions[i].Name = name

\* the live session called name
TheLive(name) == sessions[CHOOSE i \in 1..Len(sessions) : sessions[i].Name = name]

\* the token is not ".", not an absolute path and not made of dashes only
PlainToken(token) ==
    /\ token # "."
    /\ ~HasPrefix(token, "/")
    /\ \E i \in 1..Len(token) : SubSeq(token, i, i) # "-"

\* every session of the listing is still live, in its directory, and the
\* server has one session per name
ListingUntouched ==
    /\ \A i \in 1..Len(sessions) :
          [Name |-> sessions[i].Name, Path |-> sessions[i].Path] \in tmux
    /\ \A s1, s2 \in tmux : s1.Name = s2.Name => s1 = s2

-----------------------------------------------------------------------------
(* C1 *)

\* index of the first candidate name that is free or lives in directory dir;
\* 0 if all ten are live in other directories
FirstUsable(name, dir) ==
    LET I == {i \in 1..Len(SUFFIXES) :
                \/ ~Live(name \o SUFFIXES[i])
                \/ TheLive(name \o SUFFIXES[i]).Path = dir}
    IN IF I = {} THEN 0 ELSE CHOOSE i \in I : \A j \in I : i <= j

\* C1 (as stated): when the resolved name is live in another directory, that
\* session is left alone, the call fails only if the name and its nine
\* numbered variants are all live in other directories, and if the first
\* usable candidate name+k is free the call succeeds by creating a session
\* called name+k in dir and switching to it.
C1_SuffixCreates ==
    (Ended /\ resolved.sessionName # "" /\ Live(resolved.sessionName)
       /\ TheLive(resolved.sessionName).Path # resolved.sessionDirPath)
    => LET name == resolved.sessionName
           dir == resolved.sessionDirPath
           k == FirstUsable(name, dir)
       IN /\ ListingUntouched
          /\ (pc \in {"fatal", "panic"}) => (k = 0)
          /\ (k > 0 /\ ~Live(name \o SUFFIXES[k]))
             => /\ Switched
                /\ client = name \o SUFFIXES[k]
                /\ [Name |-> name \o SUFFIXES[k], Path |-> dir] \in tmux

-----------------------------------------------------------------------------
(* C2 *)

\* C2: whenever ChangeSession switched, the session switched to is bound to
\* the resolved directory, and every session that was live before the call
\* is still live in its own directory, none replaced.
C2_KeyedByNameAndDir ==
    (Switched \/ pc = "exit")
    => /\ [Name |-> client, Path |-> resolved.sessionDirPath] \in tmux
       /\ ListingUntouched

\* C2 witness: the bare name lives elsewhere, and the client was switched to
\* the numbered session of the resolved directory
C2_Witness ==
    /\ Switched
    /\ Live(resolved.sessionName)
    /\ TheLive(resolved.sessionName).Path # resolved.sessionDirPath
    /\ client = resolved.sessionName \o "1"

-----------------------------------------------------------------------------
(* C3 *)

\* the token is made of dashes only, at least one
Dashes(token) == countRepeatedChars(token, "-") > 0

\* the zero-based position the token selects: min(N, count - 1)
DashIndex ==
    IF Len(sessionId) >= Len(sessions) THEN Len(sessions) - 1 ELSE Len(sessionId)

\* zero-based position of the i-th listed session when the listing is ordered
\* by lastActivity descending and ties keep their listing order
StablePosition(i) ==
    Cardinality({j \in 1..Len(sessions) :
        \/ After(sessions[j], sessions[i])
        \/ sessions[j].LastActivity = sessions[i].LastActivity /\ j < i})

\* the session switched to is an existing one and nothing was created
SwitchedToLive(s) ==
    /\ Switched
    /\ resolved = Target(s.Name, s.Path, "", {})
    /\ client = s.Name
    /\ created = <<>>
    /\ ListingUntouched
    /\ Cardinality(tmux) = Len(sessions)

-----------------------------------------------------------------------------
(* C4 *)

\* the positions of the live sessions whose name starts with the token
PrefixMatches(token) ==
    {i \in 1..Len(sessions) : HasPrefix(sessions[i].Name, token)}

\* the last of them in listing order
LastPrefixMatch(token) ==
    sessions[CHOOSE i \in PrefixMatches(token) : \A j \in PrefixMatches(token) : j <= i]

\* C4: a plain token that is no live session's name and a prefix of one or
\* more live session names resolves to the last matching session of the
\* listing, whatever the favourites and the home directory hold, and the
\* client is switched to it.
C4_LastLivePrefixWins ==
    (Ended /\ PlainToken(sessionId) /\ ~Live(sessionId)
       /\ PrefixMatches(sessionId) # {})
    => SwitchedToLive(LastPrefixMatch(sessionId))

\* C4 witness: two live sessions start with the token, the first of them is
\* not the one chosen, and the favourites have a record called like the token
C4_Witness ==
    /\ Ended /\ PlainToken(sessionId) /\ ~Live(sessionId)
    /\ Cardinality(PrefixMatches(sessionId)) = 2
    /\ \E i \in 1..Len(document) :
          /\ document[i].Name = sessionId
          /\ document[i].Path # resolved.sessionDirPath
    /\ JoinHome(sessionId) \in dirs
    /\ client = LastPrefixMatch(sessionId).Name

-----------------------------------------------------------------------------
(* C5 *)

\* C5 (as stated): every token that is a live session's full name resolves
\* to that session's name and directory, and the client is switched to that
\* session, nothing created.
C5_LiveNameAlwaysWins ==
    (Ended /\ Live(sessionId)) => SwitchedToLive(TheLive(sessionId))

\* C5 (amended): every plain token (not ".", not an absolute path, not made
\* of dashes only) that is a live session's full name resolves to that
\* session's name and directory, and the client is switched to that session,
\* nothing created, whatever the favourites hold.
C5_LiveNameWins ==
    (Ended /\ PlainToken(sessionId) /\ Live(sessionId))
    => SwitchedToLive(TheLive(sessionId))

\* C5 witness: the favourites hold a record called like the token with
\* another path than the live session's
C5_Witness ==
    /\ Ended /\ PlainToken(sessionId) /\ Live(sessionId)
    /\ \E i \in 1..Len(document) :
          /\ document[i].Name = sessionId
          /\ document[i].Path # TheLive(sessionId).Path
    /\ client = sessionId

-----------------------------------------------------------------------------
(* C6 *)

\* the positions of the loaded favourites that have the token as name or alias
FavMatches(token) ==
    {i \in 1..Len(document) :
        \/ document[i].Name = token
        \/ \E k \in 1..Len(document[i].Aliases) : document[i].Aliases[k] = token}

\* the first of them in store order
FirstFav(token) ==
    document[CHOOSE i \in FavMatches(token) : \A j \in FavMatches(token) : i <= j]

\* what a favourite supplies
FavTarget(f) == Target(f.Name, f.Path, f.Cmd, f.Env)

\* what the home directory alone can give
HomeTargets ==
    {NoTarget} \cup
    {Target(HomeEntries[i], JoinHome(HomeEntries[i]), "", {}) :
        i \in 1..Len(HomeEntries)}

\* C6 (as stated): when no live session name equals or starts with the
\* token, the first favourite in store order that has the token as its name
\* or among its aliases supplies name, directory, command and environment.
C6_FirstFavouriteAlways ==
    (Ended /\ PrefixMatches(sessionId) = {} /\ FavMatches(sessionId) # {})
    => resolved = FavTarget(FirstFav(sessionId))

\* C6 (amended): for a plain token (not ".", not an absolute path, not made
\* of dashes only) that no live session name equals or starts with, the
\* first favourite in store order that has the token as its name or among
\* its aliases supplies name, directory, command and environment, also to
\* the session created; a token that is an alias of that favourite resolves
\* as the favourite's name does; and a token that is no favourite's name,
\* alias or name prefix gets nothing from the favourites, even when it is a
\* prefix of an alias.
C6_FirstFavouriteWins ==
    (Ended /\ PlainToken(sessionId) /\ PrefixMatches(sessionId) = {})
    => IF FavMatches(sessionId) # {}
       THEN LET f == FirstFav(sessionId)
            IN /\ resolved = FavTarget(f)
               /\ created # <<>> =>
                     created[1] = [name |-> f.Name, path |-> f.Path,
                                   cmd |-> f.Cmd, env |-> f.Env]
               /\ (PlainToken(f.Name) /\ PrefixMatches(f.Name) = {}
                     /\ FirstFav(f.Name) = f)
                  => \A q \in SortSlice(sessions) :
                        resolved = Resolve(sessions, q, document, dirs, f.Name,
                                           allowCreateDir).target
       ELSE (\A i \in 1..Len(document) : ~HasPrefix(document[i].Name, sessionId))
            => resolved \in HomeTargets

\* C6 witness: the token is an alias of two favourites and not the name of
\* the first, whose directory, command and environment the new session got
C6_Witness ==
    /\ Switched /\ PlainToken(sessionId) /\ PrefixMatches(sessionId) = {}
    /\ Cardinality(FavMatches(sessionId)) = 2
    /\ FirstFav(sessionId).Name # sessionId
    /\ Len(created) = 1
    /\ created[1].cmd = FirstFav(sessionId).Cmd
    /\ created[1].cmd # ""
    /\ \E i \in FavMatches(sessionId) : document[i].Cmd # created[1].cmd

-----------------------------------------------------------------------------
(* C7, C8, C9 *)

\* the sequence q without its i-th element (q itself for i = 0)
Without(q, i) ==
    IF i = 0 THEN q ELSE SubSeq(q, 1, i - 1) \o SubSeq(q, i + 1, Len(q))

\* position of the first record of q called name, 0 if there is none
PositionOf(q, name) ==
    IF \E i \in 1..Len(q) : q[i].Name = name
    THEN CHOOSE i \in 1..Len(q) :
            q[i].Name = name /\ \A j \in 1..(i - 1) : q[j].Name # name
    ELSE 0

\* the arguments of the latest Touch call
LastName == touched[Len(touched)][1]
LastPath == touched[Len(touched)][2]

\* C7: after Touch(name, path) with path not under /tmp/, the record called
\* name is first and the others follow in their former order, unchanged; a
\* name that was not in the store gets one new record with the given path
\* and empty aliases and environment; a name found further down has its
\* stored record moved, and no record is added.
C7_MoveToFront ==
    (touched # <<>> /\ ~HasPrefix(LastPath, "/tmp/"))
    => LET old == before.Sessions
           new == Config.Sessions
           at == PositionOf(old, LastName)
       IN /\ new # <<>>
          /\ new[1].Name = LastName
          /\ Tail(new) = Without(old, at)
          /\ at = 0 => new[1] = [Name |-> LastName, Path |-> LastPath, Cmd |-> "",
                                 Aliases |-> <<>>, Env |-> {}]
          /\ at > 0 => new[1] = old[at]

\* C7 witness: a record with aliases and a command was moved up from a lower
\* position by a Touch with another path than the stored one
C7_Witness ==
    /\ touched # <<>>
    /\ ~HasPrefix(LastPath, "/tmp/")
    /\ PositionOf(before.Sessions, LastName) > 1
    /\ Config.Sessions[1].Aliases # <<>>
    /\ Config.Sessions[1].Cmd # ""
    /\ Config.Sessions[1].Path # LastPath

\* C8: a Touch repeated with the same arguments leaves the store's order,
\* records and dirty flag as the first of the two calls left them.
C8_TouchIdempotent ==
    (Len(touched) >= 2 /\ touched[Len(touched)] = touched[Len(touched) - 1])
    => Config = before

\* C8 witness: the first of two equal calls changed the store
C8_Witness ==
    /\ pc = "touch"
    /\ Len(touched) = 2
    /\ touched[1] = touched[2]
    /\ Config.changed
    /\ Config.Sessions # document

\* C9: no two records of the store share a name, after any calls of Touch.
C9_UniqueNames ==
    \A i, j \in 1..Len(Config.Sessions) :
        Config.Sessions[i].Name = Config.Sessions[j].Name => i = j

\* C9 witness: ChangeSession touched a numbered live session's name, which
\* was added to two records already there
C9_Witness ==
    /\ Switched
    /\ touched = <<<<resolved.sessionName \o "1", resolved.sessionDirPath>>>>
    /\ Len(Config.Sessions) = 3

-----------------------------------------------------------------------------
(* C10 *)

\* C10 (as stated): when the process ends after a successful switch, made by
\* switch-client or by attach, the favourites document has been written once,
\* with the full list, if the store was changed, and not at all otherwise.
C10_WrittenIffChanged ==
    (pc \in {"exit", "exec"})
    => IF Config.changed
       THEN writes = 1 /\ document = Config.Sessions
       ELSE writes = 0

====
